---- MODULE Spec2Model ----
(***************************************************************************)
(* Model of the particle quadtree (src/src/util/particle_quad_tree.rs) and *)
(* of the frame that drives it (src/src/main.rs, on_draw): a fresh tree is *)
(* built over the bounding box of the buffer, every index is inserted in   *)
(* buffer order, and one tick advances the particles leaf by leaf.         *)
(*                                                                         *)
(* The numeric type parameter T is instantiated with exact rationals       *)
(* <<numerator, denominator>>, extended with the two infinities <<1,0>>,   *)
(* <<-1,0>> and NaN <<0,0>> that a division by zero produces.              *)
(***************************************************************************)
EXTENDS Integers, Sequences, FiniteSets, TLC

\* ---- bounds of the model ----
MaxParticles == 3
MaxX == 2
MaxY == 1
MaxMass == 2
MaxCapacity == 2

\* ---- program constants ----
GravConst == 10
TickRate == 30
Two == 2

VARIABLES elements, snapshot, max_capacity, tree, next, pc, tickPos, updated

vars == <<elements, snapshot, max_capacity, tree, next, pc, tickPos, updated>>

\* ---- the numeric type T ----
Abs(a) == IF a < 0 THEN -a ELSE a

Sign(a) == IF a < 0 THEN -1 ELSE IF a = 0 THEN 0 ELSE 1

RECURSIVE GCD(_, _)
GCD(a, b) == IF b = 0 THEN a ELSE GCD(b, a % b)

Norm(n, d) ==
    IF d = 0 THEN <<Sign(n), 0>>
    ELSE LET s == IF d < 0 THEN -1 ELSE 1
             g == GCD(Abs(n), Abs(d))
         IN <<(s * n) \div g, (s * d) \div g>>

NaN == <<0, 0>>

FromUsize(value) == <<value, 1>>

Zero == FromUsize(0)

IsFinite(a) == a[2] # 0

TAdd(a, b) ==
    IF IsFinite(a) /\ IsFinite(b) THEN Norm(a[1] * b[2] + b[1] * a[2], a[2] * b[2])
    ELSE IF a = NaN \/ b = NaN THEN NaN
    ELSE IF IsFinite(a) THEN b
    ELSE IF IsFinite(b) THEN a
    ELSE IF a = b THEN a ELSE NaN

TNeg(a) == <<-a[1], a[2]>>

TSub(a, b) == TAdd(a, TNeg(b))

TMul(a, b) == Norm(a[1] * b[1], a[2] * b[2])

TDiv(a, b) == Norm(a[1] * b[2], a[2] * b[1])

\* comparisons are only made between finite values in one frame
TLe(a, b) == IsFinite(a) /\ IsFinite(b) /\ a[1] * b[2] <= b[1] * a[2]

TLt(a, b) == IsFinite(a) /\ IsFinite(b) /\ a[1] * b[2] < b[1] * a[2]

\* ---- Vector2D ----
Vec(x, y) == [x |-> x, y |-> y]

VSub(a, b) == Vec(TSub(a.x, b.x), TSub(a.y, b.y))

VAdd(a, b) == Vec(TAdd(a.x, b.x), TAdd(a.y, b.y))

VMul(a, k) == Vec(TMul(a.x, k), TMul(a.y, k))

length_sq(a) == TAdd(TMul(a.x, a.x), TMul(a.y, a.y))

VZero == Vec(Zero, Zero)

\* ---- Particle ----
Particle(position, velocity, radius, mass) ==
    [position |-> position, velocity |-> velocity, radius |-> radius, mass |-> mass]

create_particle(x, y, m) ==
    Particle(Vec(FromUsize(x), FromUsize(y)), VZero, FromUsize(1), FromUsize(m))

\* ---- ParticleQuadTree ----
\* A tree is a function from paths (sequences of child names, <<>> the root)
\* to nodes.  inserted is the history of the indices insert was called with
\* at the node.
Quadrants == {"top_left", "top_right", "bottom_left", "bottom_right"}

Leaf(element_indices) == [kind |-> "Leaf", element_indices |-> element_indices]

Node == [kind |-> "Node", element_indices |-> <<>>]

new(center, width, height, cap) ==
    [center |-> center,
     summary_particle |-> Particle(center, VZero, Zero, Zero),
     width |-> width,
     height |-> height,
     max_capacity |-> cap,
     num_elements |-> 0,
     node |-> Leaf(<<>>),
     inserted |-> <<>>]

\* a running summary that weights each position by the particle's mass
UpdateSummaryMassWeighted(self, element, index) ==
    IF self.num_elements = 0
    THEN [self EXCEPT !.summary_particle.position = element.position,
                      !.summary_particle.mass = element.mass,
                      !.num_elements = 1,
                      !.inserted = Append(@, index)]
    ELSE LET cx == self.summary_particle.position.x
             cy == self.summary_particle.position.y
             n == self.summary_particle.mass
             n_plus == TAdd(self.summary_particle.mass, element.mass)
         IN [self EXCEPT
                !.summary_particle.position =
                    Vec(TDiv(TAdd(TMul(cx, n), TMul(element.position.x, element.mass)), n_plus),
                        TDiv(TAdd(TMul(cy, n), TMul(element.position.y, element.mass)), n_plus)),
                !.summary_particle.mass = TAdd(self.summary_particle.mass, element.mass),
                !.num_elements = self.num_elements + 1,
                !.inserted = Append(@, index)]

\* lines 84-99: the running summary
UpdateSummary(self, element, index) ==
    IF self.num_elements = 0
    THEN [self EXCEPT !.summary_particle.position = element.position,
                      !.summary_particle.mass = element.mass,
                      !.num_elements = 1,
                      !.inserted = Append(@, index)]
    ELSE LET cx == self.summary_particle.position.x
             cy == self.summary_particle.position.y
             n == FromUsize(self.num_elements)
             n_plus == FromUsize(self.num_elements + 1)
         IN [self EXCEPT
                !.summary_particle.position =
                    Vec(TDiv(TAdd(TMul(cx, n), element.position.x), n_plus),
                        TDiv(TAdd(TMul(cy, n), element.position.y), n_plus)),
                !.summary_particle.mass = TAdd(self.summary_particle.mass, element.mass),
                !.num_elements = self.num_elements + 1,
                !.inserted = Append(@, index)]

\* a routing that sends a particle on a center line right and down
RouteChildStrict(position, center) ==
    IF TLt(position.x, center.x)
    THEN IF TLt(position.y, center.y) THEN "top_left" ELSE "bottom_left"
    ELSE IF TLt(position.y, center.y) THEN "top_right" ELSE "bottom_right"

\* lines 109-127: routing at an internal node
RouteChild(position, center) ==
    IF TLe(position.x, center.x)
    THEN IF TLe(position.y, center.y) THEN "top_left" ELSE "bottom_left"
    ELSE IF TLe(position.y, center.y) THEN "top_right" ELSE "bottom_right"

\* lines 189-208: routing of the held indices during a split
SplitChild(position, cx, cy) ==
    IF TLt(position.x, cx)
    THEN IF TLt(position.y, cy) THEN "top_left" ELSE "bottom_left"
    ELSE IF TLt(position.y, cy) THEN "top_right" ELSE "bottom_right"

\* a capacity test that is off by one
HasCapacityOffByOne(len, cap) == len <= cap

\* line 132
HasCapacity(len, cap) == len < cap

\* a removal that forgets to move the last element into the freed slot
swap_remove_lossy(v) ==
    [elem |-> v[1], rest |-> SubSeq(v, 2, Len(v) - 1)]

\* Vec::swap_remove(0): takes element 0 and moves the last element into its place
swap_remove(v) ==
    [elem |-> v[1],
     rest |-> IF Len(v) = 1 THEN <<>> ELSE <<v[Len(v)]>> \o SubSeq(v, 2, Len(v) - 1)]

\* lines 137-183: the four children of a splitting node
ChildCenter(self, q) ==
    LET two == FromUsize(Two)
        half_width == TDiv(TAdd(self.width, two), two)
        half_height == TDiv(TAdd(self.height, two), two)
        quarter_width == TDiv(half_width, two)
        quarter_height == TDiv(half_height, two)
        cx == self.center.x
        cy == self.center.y
    IN Vec(IF q \in {"top_left", "bottom_left"} THEN TSub(cx, quarter_width)
                                                ELSE TAdd(cx, quarter_width),
           IF q \in {"top_left", "top_right"} THEN TSub(cy, quarter_height)
                                              ELSE TAdd(cy, quarter_height))

\* children that are created with room for one index less than their parent
NewChildSmaller(self, q) ==
    LET two == FromUsize(Two)
    IN new(ChildCenter(self, q),
           TDiv(TAdd(self.width, two), two),
           TDiv(TAdd(self.height, two), two),
           self.max_capacity - 1)

NewChild(self, q) ==
    LET two == FromUsize(Two)
    IN new(ChildCenter(self, q),
           TDiv(TAdd(self.width, two), two),
           TDiv(TAdd(self.height, two), two),
           self.max_capacity)

WithChildren(t, p) ==
    [c \in {p \o <<q>> : q \in Quadrants} |-> NewChild(t[p], c[Len(c)])] @@ t

RECURSIVE insert(_, _, _, _)
RECURSIVE Redistribute(_, _, _, _)

\* lines 185-209: the redistribution loop
Redistribute(t, p, elems, element_indices) ==
    IF element_indices = <<>> THEN t
    ELSE LET sr == swap_remove(element_indices)
             element == elems[sr.elem]
             child == SplitChild(element.position, t[p].center.x, t[p].center.y)
         IN Redistribute(insert(t, p \o <<child>>, elems, sr.elem), p, elems, sr.rest)

\* lines 80-220
insert(t, p, elems, index) ==
    LET element == elems[index]
        self == UpdateSummary(t[p], element, index)
        t1 == [t EXCEPT ![p] = self]
    IN IF self.node.kind = "Node"
       THEN insert(t1, p \o <<RouteChild(element.position, self.center)>>, elems, index)
       ELSE IF HasCapacity(Len(self.node.element_indices), self.max_capacity)
            THEN [t1 EXCEPT ![p].node = Leaf(Append(self.node.element_indices, index))]
            ELSE [Redistribute(WithChildren(t1, p), p, elems, self.node.element_indices)
                     EXCEPT ![p].node = Node]

\* ---- tick ----
elapsed_s == TDiv(FromUsize(1), FromUsize(TickRate))

grav_const == FromUsize(GravConst)

\* a descent that hands bottom_right its own summary instead of top_left's
ChildArgsOwnSummary(q) ==
    CASE q = "top_left" -> <<"top_right", "bottom_left", "bottom_right">>
      [] q = "top_right" -> <<"top_left", "bottom_left", "bottom_right">>
      [] q = "bottom_left" -> <<"top_right", "top_left", "bottom_right">>
      [] q = "bottom_right" -> <<"top_right", "bottom_left", "bottom_right">>

\* lines 265-308: the three trees handed to create_summaries for each child
ChildArgs(q) ==
    CASE q = "top_left" -> <<"top_right", "bottom_left", "bottom_right">>
      [] q = "top_right" -> <<"top_left", "bottom_left", "bottom_right">>
      [] q = "bottom_left" -> <<"top_right", "top_left", "bottom_right">>
      [] q = "bottom_right" -> <<"top_right", "bottom_left", "top_left">>

\* a summary handed down the tree: the cloned summary particle, and the node
\* it was cloned from
SummaryOf(t, p) == [particle |-> t[p].summary_particle, src |-> p]

\* lines 359-370
create_summaries(original, t, tree1, tree2, tree3) ==
    original \o <<SummaryOf(t, tree1), SummaryOf(t, tree2), SummaryOf(t, tree3)>>

ChildOrder == <<"top_left", "top_right", "bottom_left", "bottom_right">>

\* lines 251-309: the descent; yields the leaves in the order they are
\* processed, each with the summaries list it is called with
RECURSIVE tick_with_summaries(_, _, _)
tick_with_summaries(t, p, summaries) ==
    IF t[p].node.kind = "Node"
    THEN LET Call(q) ==
                 tick_with_summaries(t, p \o <<q>>,
                     create_summaries(summaries, t,
                                      p \o <<ChildArgs(q)[1]>>,
                                      p \o <<ChildArgs(q)[2]>>,
                                      p \o <<ChildArgs(q)[3]>>))
         IN Call(ChildOrder[1]) \o Call(ChildOrder[2]) \o Call(ChildOrder[3]) \o Call(ChildOrder[4])
    ELSE <<[leaf |-> p, summaries |-> summaries]>>

\* lines 328-332 and 339-343: the pull of a body at position2 with mass m2
Pull(p1, position2, m2) ==
    LET v_dir == VSub(position2, p1.position)
        r_sq == length_sq(v_dir)
        a1 == TDiv(TMul(grav_const, m2), r_sq)
    IN VMul(VMul(v_dir, a1), elapsed_s)

\* lines 321-333: the particles of the same leaf, j = from .. num_particles - 1
RECURSIVE PairwiseTerm(_, _, _, _, _)
PairwiseTerm(elems, element_indices, i, j, delta_v) ==
    IF j > Len(element_indices) THEN delta_v
    ELSE IF i = j THEN PairwiseTerm(elems, element_indices, i, j + 1, delta_v)
    ELSE LET p1 == elems[element_indices[i]]
             p2 == elems[element_indices[j]]
         IN PairwiseTerm(elems, element_indices, i, j + 1,
                         VAdd(delta_v, Pull(p1, p2.position, p2.mass)))

\* lines 336-344: the summaries of other nodes
RECURSIVE SummaryTerm(_, _, _, _)
SummaryTerm(p1, summaries, k, delta_v) ==
    IF k > Len(summaries) THEN delta_v
    ELSE SummaryTerm(p1, summaries, k + 1,
             VAdd(delta_v, Pull(p1, summaries[k].particle.position, summaries[k].particle.mass)))

\* lines 314-347: delta_v of the i-th particle of the leaf (positions in the
\* index list count from 1 here)
DeltaV(elems, element_indices, i, summaries) ==
    SummaryTerm(elems[element_indices[i]], summaries, 1,
                PairwiseTerm(elems, element_indices, i, 1, VZero))

\* lines 351-353
ApplyDelta(elems, index, delta_v) ==
    LET velocity == VAdd(elems[index].velocity, delta_v)
    IN [elems EXCEPT ![index].velocity = velocity,
                     ![index].position = VAdd(elems[index].position, VMul(velocity, elapsed_s))]

\* lines 350-354
RECURSIVE ApplyAll(_, _, _, _)
ApplyAll(elems, element_indices, delta_velocities, i) ==
    IF i > Len(element_indices) THEN elems
    ELSE ApplyAll(ApplyDelta(elems, element_indices[i], delta_velocities[i]),
                  element_indices, delta_velocities, i + 1)

\* a leaf that applies each delta as soon as it is computed
RECURSIVE ApplyInterleaved(_, _, _, _)
ApplyInterleaved(elems, element_indices, summaries, i) ==
    IF i > Len(element_indices) THEN elems
    ELSE ApplyInterleaved(
             ApplyDelta(elems, element_indices[i], DeltaV(elems, element_indices, i, summaries)),
             element_indices, summaries, i + 1)

TickLeafInterleaved(elems, element_indices, summaries) ==
    ApplyInterleaved(elems, element_indices, summaries, 1)

\* lines 310-355: all deltas first, then the writes
TickLeafNode(elems, element_indices, summaries) ==
    LET delta_velocities ==
            [i \in 1 .. Len(element_indices) |-> DeltaV(elems, element_indices, i, summaries)]
    IN ApplyAll(elems, element_indices, delta_velocities, 1)

\* lines 247-249
Schedule == tick_with_summaries(tree, <<>>, <<>>)

Occurrences(s, v) == Cardinality({k \in 1 .. Len(s) : s[k] = v})

\* ---- the frame (main.rs) ----
Indices == DOMAIN elements

NumParticles == Cardinality(Indices)

Min(S) == CHOOSE a \in S : \A b \in S : a <= b

Max(S) == CHOOSE a \in S : \A b \in S : a >= b

Buffers ==
    UNION {[0 .. n - 1 -> {create_particle(x, y, m) :
                             x \in 0 .. MaxX, y \in 0 .. MaxY, m \in 1 .. MaxMass}] :
           n \in 1 .. MaxParticles}

\* main.rs lines 76-104: bounds of the universe and the temporary quadtree.
\* The buffer holds integer coordinates before the tick.
OnDrawTree(elems, cap) ==
    LET xs == {elems[i].position.x[1] : i \in DOMAIN elems}
        ys == {elems[i].position.y[1] : i \in DOMAIN elems}
        width == FromUsize(Max(xs) - Min(xs))
        height == FromUsize(Max(ys) - Min(ys))
        center_x == TDiv(FromUsize(Min(xs) + Max(xs)), FromUsize(2))
        center_y == TDiv(FromUsize(Min(ys) + Max(ys)), FromUsize(2))
    IN (<<>> :> new(Vec(center_x, center_y), width, height, cap))

Init ==
    /\ elements \in Buffers
    /\ snapshot = elements
    /\ max_capacity \in 1 .. MaxCapacity
    /\ tree = <<>>
    /\ next = 0
    /\ pc = "start"
    /\ tickPos = 1
    /\ updated = [i \in DOMAIN elements |-> 0]

OnDraw ==
    /\ pc = "start"
    /\ tree' = OnDrawTree(elements, max_capacity)
    /\ pc' = "insert"
    /\ UNCHANGED <<elements, snapshot, max_capacity, next, tickPos, updated>>

Insert ==
    /\ pc = "insert"
    /\ next < NumParticles
    /\ tree' = insert(tree, <<>>, elements, next)
    /\ next' = next + 1
    /\ pc' = IF next + 1 = NumParticles THEN "tick" ELSE "insert"
    /\ UNCHANGED <<elements, snapshot, max_capacity, tickPos, updated>>

\* one leaf of the tick pass; the tree is borrowed immutably for the whole tick
TickLeaf ==
    /\ pc = "tick"
    /\ tickPos <= Len(Schedule)
    /\ LET job == Schedule[tickPos]
           element_indices == tree[job.leaf].node.element_indices
       IN /\ elements' = TickLeafNode(elements, element_indices, job.summaries)
          /\ updated' = [i \in DOMAIN updated |-> updated[i] + Occurrences(element_indices, i)]
    /\ tickPos' = tickPos + 1
    /\ pc' = IF tickPos = Len(Schedule) THEN "done" ELSE "tick"
    /\ UNCHANGED <<snapshot, max_capacity, tree, next>>

Next == OnDraw \/ Insert \/ TickLeaf

Spec == Init /\ [][Next]_vars

\* ---- helpers of the properties ----
IsPrefix(p, q) == Len(p) <= Len(q) /\ SubSeq(q, 1, Len(p)) = p

Paths == DOMAIN tree

IsLeaf(p) == tree[p].node.kind = "Leaf"

Children(t, p) == {q \in DOMAIN t : Len(q) = Len(p) + 1 /\ IsPrefix(p, q)}

Range(s) == {s[k] : k \in 1 .. Len(s)}

RECURSIVE SumOver(_, _)
SumOver(S, f) ==
    IF S = {} THEN 0
    ELSE LET a == CHOOSE b \in S : TRUE IN f[a] + SumOver(S \ {a}, f)

\* the number of slots of leaf lists beneath p
HeldBeneath(p) ==
    LET leaves == {q \in Paths : IsPrefix(p, q) /\ IsLeaf(q)}
    IN SumOver(leaves, [q \in leaves |-> Len(tree[q].node.element_indices)])

\* the slots (leaf, position) that hold index i
SlotsOf(i) ==
    {<<q, k>> \in Paths \X (1 .. MaxCapacity + 1) :
        /\ IsLeaf(q)
        /\ k <= Len(tree[q].node.element_indices)
        /\ tree[q].node.element_indices[k] = i}

InsertedSoFar == 0 .. next - 1

\* C1: after any sequence of insert calls with distinct indices, every
\* inserted index (the one that made a leaf split included) is held in the
\* index list of exactly one leaf.
C1_EveryInsertedIndexHeldOnce ==
    pc # "start" => \A i \in InsertedSoFar : Cardinality(SlotsOf(i)) = 1

\* C2: when tick returns after every index was inserted once, every particle
\* of the buffer has been updated exactly once (velocity, then position from
\* the new velocity).
C2_EveryParticleTickedOnce ==
    pc = "done" =>
        \A i \in Indices :
            /\ updated[i] = 1
            /\ elements[i].position =
                   VAdd(snapshot[i].position, VMul(elements[i].velocity, elapsed_s))

\* C3: at every node num_elements equals the number of indices reachable
\* beneath the node.
C3_NumElementsIsReachableCount ==
    \A p \in Paths : tree[p].num_elements = HeldBeneath(p)

\* C4: no leaf holds more than max_capacity indices, and every node at which
\* an insert arrived while it held max_capacity indices (it has seen more
\* than max_capacity inserts) is internal with exactly four children and
\* holds no indices itself.
C4_LeafCapacity ==
    \A p \in Paths :
        /\ IsLeaf(p) => Len(tree[p].node.element_indices) <= max_capacity
        /\ Len(tree[p].inserted) > max_capacity =>
               /\ tree[p].node.kind = "Node"
               /\ tree[p].node.element_indices = <<>>
               /\ Children(tree, p) = {p \o <<q>> : q \in Quadrants}
               /\ Cardinality(Children(tree, p)) = 4

\* a split has filled one child up to max_capacity by redistribution
C4_Witness ==
    /\ pc # "start"
    /\ \E p \in Paths :
           /\ tree[p].node.kind = "Node"
           /\ Len(tree[p].inserted) > max_capacity
           /\ \E c \in Children(tree, p) :
                  IsLeaf(c) /\ Len(tree[c].node.element_indices) = max_capacity

\* C5: in the step in which a leaf splits, the index lists of its four new
\* children are duplicate-free, pairwise disjoint, and together hold exactly
\* the indices the leaf held before the split.
SplitPartition(p) ==
    LET before == tree[p].node.element_indices
        kids == Children(tree', p)
    IN /\ \A c \in kids :
              LET l == tree'[c].node.element_indices
              IN Cardinality(Range(l)) = Len(l)
       /\ \A c, d \in kids :
              c # d => Range(tree'[c].node.element_indices)
                           \cap Range(tree'[d].node.element_indices) = {}
       /\ UNION {Range(tree'[c].node.element_indices) : c \in kids} = Range(before)

C5_SplitPartition ==
    [][\A p \in Paths :
           (p \in DOMAIN tree' /\ IsLeaf(p) /\ tree'[p].node.kind = "Node")
               => SplitPartition(p)]_vars

\* a leaf that held two or more indices has just split
C5_Witness ==
    /\ pc # "start"
    /\ max_capacity >= 2
    /\ \E p \in Paths :
           /\ tree[p].node.kind = "Node"
           /\ \A c \in Children(tree, p) : IsLeaf(c)
           /\ Len(tree[p].inserted) = max_capacity + 1
           /\ \E c, d \in Children(tree, p) :
                  /\ c # d
                  /\ tree[c].node.element_indices # <<>>
                  /\ tree[d].node.element_indices # <<>>

\* ---- summaries ----
RECURSIVE SumMass(_, _)
SumMass(elems, s) ==
    IF s = <<>> THEN Zero ELSE TAdd(elems[Head(s)].mass, SumMass(elems, Tail(s)))

RECURSIVE SumPosition(_, _)
SumPosition(elems, s) ==
    IF s = <<>> THEN VZero ELSE VAdd(elems[Head(s)].position, SumPosition(elems, Tail(s)))

MeanPosition(elems, s) ==
    LET sum == SumPosition(elems, s)
    IN Vec(TDiv(sum.x, FromUsize(Len(s))), TDiv(sum.y, FromUsize(Len(s))))

\* the orders in which the indices of the buffer can be inserted
Orders == {f \in [Indices -> Indices] : \A a, b \in Indices : a # b => f[a] # f[b]}

RECURSIVE InsertAll(_, _, _, _)
InsertAll(t, elems, order, k) ==
    IF k \notin DOMAIN order THEN t
    ELSE InsertAll(insert(t, <<>>, elems, order[k]), elems, order, k + 1)

\* the tree the frame builds when it inserts the buffer in the given order
BuildTree(order) == InsertAll(OnDrawTree(snapshot, max_capacity), snapshot, order, 0)

\* C6: every node's summary mass is the sum of the masses of the particles
\* inserted beneath it, and is the same node by node whatever the order in
\* which the same set of indices is inserted.
C6_MassConservation ==
    (pc = "tick" /\ tickPos = 1) =>
        /\ \A p \in Paths :
               tree[p].summary_particle.mass = SumMass(snapshot, tree[p].inserted)
        /\ \A order \in Orders :
               LET other == BuildTree(order)
               IN \A p \in Paths \cap DOMAIN other :
                      other[p].summary_particle.mass = tree[p].summary_particle.mass

\* C7: every node that has seen an insert has as summary position the
\* unweighted mean (sum of positions over count, in exact arithmetic) of the
\* positions of the particles inserted into it or its descendants.
C7_PositionIsUnweightedMean ==
    \A p \in Paths :
        tree[p].num_elements > 0 =>
            tree[p].summary_particle.position = MeanPosition(snapshot, tree[p].inserted)

\* a node below the root has seen two particles of different mass and position
C7_Witness ==
    /\ pc # "start"
    /\ \E p \in Paths :
           /\ p # <<>>
           /\ Len(tree[p].inserted) >= 2
           /\ \E a, b \in Range(tree[p].inserted) :
                  /\ snapshot[a].mass # snapshot[b].mass
                  /\ snapshot[a].position.x # snapshot[b].position.x

\* C8: every leaf is ticked with exactly three summaries per level above it:
\* at level k the summaries of the three siblings of the k-th node of its
\* path, each equal to that sibling's summary particle; none comes from a
\* node of the path itself.
SiblingsAt(leaf, k) ==
    {SubSeq(leaf, 1, k - 1) \o <<q>> : q \in Quadrants \ {leaf[k]}}

C8_DistantSummaries ==
    pc \in {"tick", "done"} =>
        \A n \in 1 .. Len(Schedule) :
            LET job == Schedule[n]
                d == Len(job.leaf)
            IN /\ Len(job.summaries) = 3 * d
               /\ \A k \in 1 .. d :
                      {job.summaries[m].src : m \in 3 * k - 2 .. 3 * k} = SiblingsAt(job.leaf, k)
               /\ \A m \in 1 .. Len(job.summaries) :
                      /\ job.summaries[m].particle = tree[job.summaries[m].src].summary_particle
                      /\ ~IsPrefix(job.summaries[m].src, job.leaf)

\* a leaf two levels below the root that holds a particle is being ticked
C8_Witness ==
    /\ pc = "tick"
    /\ tickPos <= Len(Schedule)
    /\ Len(Schedule[tickPos].leaf) = 2
    /\ Len(Schedule[tickPos].summaries) = 6
    /\ tree[Schedule[tickPos].leaf].node.element_indices # <<>>

\* C9: in every step of the tick the tree is left alone and each particle of
\* the leaf gets the delta computed from the buffer as it was before the
\* tick: its new velocity is its old velocity plus that delta, its new
\* position its old position plus the new velocity times the elapsed time.
FromSnapshot(job) ==
    LET element_indices == tree[job.leaf].node.element_indices
    IN \A k \in 1 .. Len(element_indices) :
           LET i == element_indices[k]
               velocity == VAdd(snapshot[i].velocity,
                                DeltaV(snapshot, element_indices, k, job.summaries))
           IN /\ elements'[i].velocity = velocity
              /\ elements'[i].position = VAdd(snapshot[i].position, VMul(velocity, elapsed_s))

C9_PreTickSnapshot ==
    [][(pc = "tick" /\ tickPos <= Len(Schedule)) =>
           (tree' = tree /\ FromSnapshot(Schedule[tickPos]))]_vars

\* a leaf below the root with two particles at different places was ticked
C9_Witness ==
    /\ pc = "tick"
    /\ tickPos > 1
    /\ LET job == Schedule[tickPos - 1]
           element_indices == tree[job.leaf].node.element_indices
       IN /\ job.leaf # <<>>
          /\ Len(element_indices) = 2
          /\ elements[element_indices[1]].velocity # VZero
          /\ elements[element_indices[2]].velocity # VZero
          /\ IsFinite(elements[element_indices[2]].velocity.x)

\* C10: two particles of equal mass, symmetric about the tree center: after
\* one tick their delta-velocities are opposite, non-zero and along the line
\* that connects the two particles.
Cross(a, b) == TSub(TMul(a.x, b.y), TMul(a.y, b.x))

C10_TwoBodySymmetry ==
    (/\ pc = "done"
     /\ NumParticles = 2
     /\ snapshot[0].mass = snapshot[1].mass
     /\ snapshot[0].position # snapshot[1].position
     /\ VAdd(snapshot[0].position, snapshot[1].position) = VMul(tree[<<>>].center, FromUsize(2)))
    => LET dv0 == VSub(elements[0].velocity, snapshot[0].velocity)
           dv1 == VSub(elements[1].velocity, snapshot[1].velocity)
           line == VSub(snapshot[1].position, snapshot[0].position)
       IN /\ dv0 = VSub(VZero, dv1)
          /\ dv0 # VZero
          /\ Cross(dv0, line) = Zero

\* ---- routing ----
IsLeftChild(c) == c[Len(c)] \in {"top_left", "bottom_left"}

IsTopChild(c) == c[Len(c)] \in {"top_left", "top_right"}

\* the children of p at which the insert of this step arrived
ArrivedAt(p) ==
    {c \in Children(tree, p) : tree'[c].inserted = Append(tree[c].inserted, next)}

\* the children of p that hold index i after the step
HoldersOf(p, i) ==
    {c \in Children(tree', p) : i \in Range(tree'[c].node.element_indices)}

\* C11: an insert that arrives at an internal node goes on to exactly one
\* child, the left one iff x <= center.x and the top one iff y <= center.y;
\* an index held by a leaf that splits lands in exactly one new child, the
\* left one iff x < center.x and the top one iff y < center.y.
C11_RoutingPolicy ==
    [][pc = "insert" =>
          \A p \in Paths :
              /\ (tree[p].node.kind = "Node" /\ tree'[p].inserted # tree[p].inserted) =>
                     /\ Cardinality(ArrivedAt(p)) = 1
                     /\ \A c \in Children(tree, p) \ ArrivedAt(p) :
                            tree'[c].inserted = tree[c].inserted
                     /\ \A c \in ArrivedAt(p) :
                            /\ IsLeftChild(c) <=> TLe(elements[next].position.x, tree[p].center.x)
                            /\ IsTopChild(c) <=> TLe(elements[next].position.y, tree[p].center.y)
              /\ (IsLeaf(p) /\ tree'[p].node.kind = "Node") =>
                     \A i \in Range(tree[p].node.element_indices) :
                         /\ Cardinality(HoldersOf(p, i)) = 1
                         /\ \A c \in HoldersOf(p, i) :
                                /\ IsLeftChild(c) <=> TLt(elements[i].position.x, tree[p].center.x)
                                /\ IsTopChild(c) <=> TLt(elements[i].position.y, tree[p].center.y)]_vars

\* below one node, a particle on a center line was moved right or down by the
\* split and another one on the same line was routed left or up afterwards
C11_Witness ==
    /\ pc # "start"
    /\ \E p \in Paths :
           /\ tree[p].node.kind = "Node"
           /\ \E c, d \in Children(tree, p) :
                  \E i \in Range(tree[c].node.element_indices),
                     j \in Range(tree[d].node.element_indices) :
                      \/ /\ snapshot[i].position.x = tree[p].center.x
                         /\ snapshot[j].position.x = tree[p].center.x
                         /\ ~IsLeftChild(c)
                         /\ IsLeftChild(d)
                      \/ /\ snapshot[i].position.y = tree[p].center.y
                         /\ snapshot[j].position.y = tree[p].center.y
                         /\ ~IsTopChild(c)
                         /\ IsTopChild(d)

\* ---- splits per insert ----
Depth(t) == Max({Len(p) : p \in DOMAIN t})

\* the leaves that the insert of this step turned into internal nodes
SplitBy == {p \in Paths : IsLeaf(p) /\ tree'[p].node.kind = "Node"}

\* C12: every insert call returns having turned at most one leaf into an
\* internal node: the four children a split creates are leaves when the call
\* returns, nothing else is added to the tree, and the depth of the tree grows
\* by at most one.
C12_OneSplitPerInsert ==
    [][pc = "insert" =>
          /\ Cardinality(SplitBy) <= 1
          /\ \A p \in SplitBy :
                 \A c \in Children(tree', p) : tree'[c].node.kind = "Leaf"
          /\ DOMAIN tree' = DOMAIN tree \cup UNION {Children(tree', p) : p \in SplitBy}
          /\ \A p \in Paths \ SplitBy : tree'[p].node.kind = tree[p].node.kind
          /\ Depth(tree') <= Depth(tree) + 1]_vars

\* a split has moved max_capacity particles that lie at one and the same
\* position into one child, which is full and still a leaf
C12_Witness ==
    /\ pc # "start"
    /\ max_capacity >= 2
    /\ \E p \in Paths :
           /\ tree[p].node.kind = "Node"
           /\ \E c \in Children(tree, p) :
                  /\ IsLeaf(c)
                  /\ Len(tree[c].node.element_indices) = max_capacity
                  /\ \A i, j \in Range(tree[c].node.element_indices) :
                         snapshot[i].position = snapshot[j].position
====
